---- MODULE Spec2Model ----
(***************************************************************************)
(* Model of the flat-file comparator (src/app.py): the value normalizer    *)
(* normalize_for_comparison, the column mapping, the key validation, the   *)
(* primary outer merge, the drop-one key analysis, the mismatch diagnosis  *)
(* and the exported row subsets.                                           *)
(*                                                                         *)
(* Text is a sequence of one-character strings, so that case folding,      *)
(* trimming and suffix stripping are computed character by character.      *)
(* A cell is a record: a string cell, a numeric cell or a real null.       *)
(***************************************************************************)
EXTENDS Integers, Sequences, FiniteSets, TLC

VARIABLES df1, df2, opts, colmap, selected_src, pc, res, ncell, n1, n2

vars == <<df1, df2, opts, colmap, selected_src, pc, res, ncell, n1, n2>>

runVars == <<df1, df2, opts, colmap, selected_src, pc, res>>

normVars == <<ncell, n1, n2>>

(***************************************************************************)
(* Text helpers                                                            *)
(***************************************************************************)

Digits == {"0", "1", "2", "3", "4", "5", "6", "7", "8", "9"}

DigitVal(ch) ==
    CASE ch = "0" -> 0 [] ch = "1" -> 1 [] ch = "2" -> 2 [] ch = "3" -> 3
      [] ch = "4" -> 4 [] ch = "5" -> 5 [] ch = "6" -> 6 [] ch = "7" -> 7
      [] ch = "8" -> 8 [] ch = "9" -> 9 [] OTHER -> 0

\* str.lower() on one character
LowerCh(ch) ==
    CASE ch = "A" -> "a" [] ch = "D" -> "d" [] ch = "E" -> "e" [] ch = "I" -> "i"
      [] ch = "M" -> "m" [] ch = "N" -> "n" [] ch = "O" -> "o" [] ch = "T" -> "t"
      [] ch = "X" -> "x" [] ch = "Y" -> "y" [] OTHER -> ch

\* str.lower()
LowerS(s) == [i \in 1..Len(s) |-> LowerCh(s[i])]

\* the characters matched by \s and removed by str.strip()
IsSpace(ch) == ch \in {" ", "\t"}

RECURSIVE LStrip(_)
LStrip(s) == IF s /= <<>> /\ IsSpace(Head(s)) THEN LStrip(Tail(s)) ELSE s

RECURSIVE RStrip(_)
RStrip(s) ==
    IF s /= <<>> /\ IsSpace(s[Len(s)]) THEN RStrip(SubSeq(s, 1, Len(s) - 1)) ELSE s

\* str.strip()
Strip(s) == RStrip(LStrip(s))

\* str.replace(r'\s+', ' ', regex=True): every run of whitespace becomes one space
RECURSIVE CollapseWs(_)
CollapseWs(s) ==
    IF s = <<>> THEN <<>>
    ELSE IF IsSpace(Head(s))
         THEN <<" ">> \o CollapseWs(LStrip(s))
         ELSE <<Head(s)>> \o CollapseWs(Tail(s))

\* str.replace(r'\.0$', '', regex=True): one trailing ".0" is removed
StripDotZero(s) ==
    IF Len(s) >= 2 /\ s[Len(s) - 1] = "." /\ s[Len(s)] = "0"
    THEN SubSeq(s, 1, Len(s) - 2)
    ELSE s

AllDigits(s) == \A i \in 1..Len(s) : s[i] \in Digits

RECURSIVE DigitsVal(_)
DigitsVal(s) ==
    IF s = <<>> THEN 0 ELSE 10 * DigitsVal(SubSeq(s, 1, Len(s) - 1)) + DigitVal(s[Len(s)])

\* position of the first "." of s, or 0
RECURSIVE DotPos(_, _)
DotPos(s, i) ==
    IF i > Len(s) THEN 0 ELSE IF s[i] = "." THEN i ELSE DotPos(s, i + 1)

(***************************************************************************)
(* Cells                                                                   *)
(***************************************************************************)

StrCell(s) == [k |-> "str", s |-> s, n |-> 0]

NumCell(n) == [k |-> "num", s |-> <<>>, n |-> n]

NullCell == [k |-> "null", s |-> <<>>, n |-> 0]

(***************************************************************************)
(* normalize_for_comparison, applied to one cell                           *)
(***************************************************************************)

NsPerMs == 1000000

MsPerDay == 86400000

NoDate == <<"N", "a", "T">>

\* the text pd.to_numeric accepts: optional surrounding whitespace, digits,
\* optionally a "." and more digits
IsNumericText(s) ==
    LET t == Strip(s)
        d == DotPos(t, 1)
    IN  IF d = 0
        THEN t /= <<>> /\ AllDigits(t)
        ELSE /\ AllDigits(SubSeq(t, 1, d - 1))
             /\ AllDigits(SubSeq(t, d + 1, Len(t)))
             /\ Len(t) >= 2

\* the whole part of the number written by s
NumericText(s) ==
    LET t == Strip(s)
        d == DotPos(t, 1)
    IN  IF d = 0 THEN DigitsVal(t) ELSE DigitsVal(SubSeq(t, 1, d - 1))

\* pd.to_numeric(series, errors='coerce'): isna marks the cells that are no number
to_numeric(cell) ==
    CASE cell.k = "num" -> [isna |-> FALSE, val |-> cell.n]
      [] cell.k = "null" -> [isna |-> TRUE, val |-> 0]
      [] cell.k = "str" ->
            IF IsNumericText(cell.s)
            THEN [isna |-> FALSE, val |-> NumericText(cell.s)]
            ELSE [isna |-> TRUE, val |-> 0]

\* series.where(s_numeric.isna(), s_numeric): a cell that is a number becomes that number
NumericWhere(cell) ==
    LET num == to_numeric(cell)
    IN  IF num.isna THEN cell ELSE NumCell(num.val)

\* a calendar date written year, month, day with "-" or "/" between them
IsDateText(s) ==
    /\ Len(s) = 10
    /\ s[5] \in {"-", "/"}
    /\ s[8] = s[5]
    /\ AllDigits(SubSeq(s, 1, 4))
    /\ AllDigits(SubSeq(s, 6, 7))
    /\ AllDigits(SubSeq(s, 9, 10))
    /\ DigitsVal(SubSeq(s, 6, 7)) \in 1..12
    /\ DigitsVal(SubSeq(s, 9, 10)) \in 1..28

\* strftime('%Y-%m-%d') of the date written by s
IsoDate(s) == SubSeq(s, 1, 4) \o <<"-">> \o SubSeq(s, 6, 7) \o <<"-">> \o SubSeq(s, 9, 10)

\* strftime('%Y-%m-%d') of the instant n nanoseconds after the epoch
EpochDate(n) ==
    LET day == (n \div NsPerMs) \div MsPerDay
    IN  CASE day = 0 -> <<"1", "9", "7", "0", "-", "0", "1", "-", "0", "1">>
          [] day = 0 - 1 -> <<"1", "9", "6", "9", "-", "1", "2", "-", "3", "1">>

\* pd.to_datetime(s, errors='coerce').dt.strftime('%Y-%m-%d'): a number is an
\* instant in nanoseconds since the epoch, a text is parsed as a date, anything
\* else is NaT
to_datetime(cell) ==
    CASE cell.k = "num" -> EpochDate(cell.n)
      [] cell.k = "null" -> NoDate
      [] cell.k = "str" -> IF IsDateText(cell.s) THEN IsoDate(cell.s) ELSE NoDate

\* .fillna(s) and .astype(str): the date where there is one, else the text of the cell
DateOrText(cell) ==
    LET d == to_datetime(cell)
    IN  IF d /= NoDate THEN d
        ELSE CASE cell.k = "str" -> cell.s
               [] cell.k = "null" -> <<"n", "a", "n">>

NullTokens ==
    { <<"n", "a", "n">>, <<"<", "n", "a", ">">>, <<"n", "o", "n", "e">>,
      <<"n", "a", "t">>, <<>> }

\* NullCollapse without .str.strip()
NullCollapseUnstripped(s) == IF LowerS(s) \in NullTokens THEN <<>> ELSE s

\* s[s.str.lower().str.strip().isin(['nan', '<na>', 'none', 'nat', ''])] = ''
NullCollapse(s) == IF Strip(LowerS(s)) \in NullTokens THEN <<>> ELSE s

TrimStep(s, should_trim_whitespace) ==
    IF should_trim_whitespace THEN CollapseWs(Strip(s)) ELSE s

CaseStep(s, is_case_insensitive_data) ==
    IF is_case_insensitive_data THEN LowerS(s) ELSE s

normalize_for_comparison(cell, is_case_insensitive_data, should_trim_whitespace) ==
    CaseStep(
        TrimStep(
            NullCollapse(StripDotZero(DateOrText(NumericWhere(cell)))),
            should_trim_whitespace),
        is_case_insensitive_data)

(***************************************************************************)
(* Tables.  A column name is text; a table is its list of column names and *)
(* its list of rows; a row maps each column name to a cell; the index of a *)
(* row is its position (the default RangeIndex, counted from 1 here).      *)
(***************************************************************************)

None == <<>>

Range(f) == {f[i] : i \in DOMAIN f}

\* sequences over S without repetition: what a multiselect can return
RECURSIVE InjectiveSeqs(_)
InjectiveSeqs(S) ==
    {<<>>} \cup UNION {{<<x>> \o q : q \in InjectiveSeqs(S \ {x})} : x \in S}

\* code point order of the characters used in column names
CodePoint(ch) ==
    CASE ch = "D" -> 68 [] ch = "I" -> 73 [] ch = "N" -> 78
      [] ch = "d" -> 100 [] ch = "g" -> 103 [] ch = "i" -> 105
      [] ch = "m" -> 109 [] ch = "n" -> 110 [] ch = "r" -> 114

\* a < b for Python strings
RECURSIVE StrLess(_, _)
StrLess(a, b) ==
    IF b = <<>> THEN FALSE
    ELSE IF a = <<>> THEN TRUE
    ELSE IF Head(a) /= Head(b) THEN CodePoint(Head(a)) < CodePoint(Head(b))
    ELSE StrLess(Tail(a), Tail(b))

\* sorted(S, key=str)
RECURSIVE Sorted(_)
Sorted(S) ==
    IF S = {} THEN <<>>
    ELSE LET least == CHOOSE x \in S : \A y \in S \ {x} : StrLess(x, y)
         IN  <<least>> \o Sorted(S \ {least})

\* LowerMap keeping the first column of each lowercased name
LowerMapFirstWins(cols) ==
    [k \in {LowerS(cols[i]) : i \in DOMAIN cols} |->
        cols[CHOOSE i \in DOMAIN cols :
                /\ LowerS(cols[i]) = k
                /\ \A j \in DOMAIN cols : LowerS(cols[j]) = k => i <= j]]

\* {str(c).lower(): c for c in cols}: a later column replaces an earlier one
\* that has the same lowercased name
LowerMap(cols) ==
    [k \in {LowerS(cols[i]) : i \in DOMAIN cols} |->
        cols[CHOOSE i \in DOMAIN cols :
                /\ LowerS(cols[i]) = k
                /\ \A j \in DOMAIN cols : LowerS(cols[j]) = k => j <= i]]

\* lines 294-310: the common columns under the source's names (a list in
\* the iteration order of a set, kept here as the set of its elements) and
\* the map from each of them to its target column
MapColumns(src_cols, tgt_cols, opt_case_cols) ==
    IF opt_case_cols
    THEN LET src_map == LowerMap(src_cols)
             tgt_map == LowerMap(tgt_cols)
             common_lower == DOMAIN src_map \cap DOMAIN tgt_map
         IN  [common_cols_list |-> {src_map[k] : k \in common_lower},
              src_to_tgt_map |->
                  [c \in {src_map[k] : k \in common_lower} |-> tgt_map[LowerS(c)]]]
    ELSE LET common == Range(src_cols) \cap Range(tgt_cols)
         IN  [common_cols_list |-> common,
              src_to_tgt_map |-> [c \in common |-> c]]

(***************************************************************************)
(* The matching engine (the body of the "Run Comparison" handler)          *)
(***************************************************************************)

HUNDRED == 100

SampleCount == 3

\* a percentage, kept exact as the fraction n / d
Pct(count, total) ==
    IF total /= 0 THEN [n |-> count * HUNDRED, d |-> total] ELSE [n |-> 0, d |-> 1]

PctGreater(p, q) == p.n * q.d > q.n * p.d

PctIs100(p) == p.n = HUNDRED * p.d

PctIs0(p) == p.n = 0

\* KeyNormalize that never trims
KeyNormalizeUntrimmed(cell, o) == normalize_for_comparison(cell, o.opt_case_data, FALSE)

\* lines 346-347: the normalizer as the key columns use it
KeyNormalize(cell, o) == normalize_for_comparison(cell, o.opt_case_data, o.opt_trim)

\* lines 431-432: the normalizer as the mismatch count uses it
ValueNormalize(cell, o) == normalize_for_comparison(cell, o.opt_case_data, o.opt_trim)

\* lines 341, 345-346: the source's key columns, normalized
SourceKeys(df, sel, o) ==
    [i \in 1..Len(df.rows) |->
        [c \in Range(sel) |-> KeyNormalize(df.rows[i][c], o)]]

\* lines 340, 342-343, 347: the target's mapped key columns, renamed to the
\* source's names and normalized
TargetKeys(df, sel, src_to_tgt_map, o) ==
    [j \in 1..Len(df.rows) |->
        [c \in Range(sel) |-> KeyNormalize(df.rows[j][src_to_tgt_map[c]], o)]]

SameKey(l, r, on) == \A c \in on : l[c] = r[c]

\* Merge as a left join: the unpaired right rows are lost
MergeLeftJoin(left, right, on, how) ==
    {[oid_src |-> i, oid_tgt |-> j, merge |-> "both"] :
        <<i, j>> \in {p \in (DOMAIN left) \X (DOMAIN right) :
                         SameKey(left[p[1]], right[p[2]], on)}}
    \cup (IF how = "outer"
          THEN {[oid_src |-> i, oid_tgt |-> 0, merge |-> "left_only"] :
                   i \in {x \in DOMAIN left :
                            \A j \in DOMAIN right : ~SameKey(left[x], right[j], on)}}
          ELSE {})

\* Merge pairing each left row with its first matching right row only
MergeFirstMatch(left, right, on, how) ==
    LET first(i) == CHOOSE j \in DOMAIN right :
                        /\ SameKey(left[i], right[j], on)
                        /\ \A j2 \in DOMAIN right :
                              SameKey(left[i], right[j2], on) => j <= j2
        matched == {i \in DOMAIN left : \E j \in DOMAIN right : SameKey(left[i], right[j], on)}
        both == {[oid_src |-> i, oid_tgt |-> first(i), merge |-> "both"] : i \in matched}
    IN  IF how = "outer"
        THEN both
             \cup {[oid_src |-> i, oid_tgt |-> 0, merge |-> "left_only"] :
                      i \in (DOMAIN left) \ matched}
             \cup {[oid_src |-> 0, oid_tgt |-> j, merge |-> "right_only"] :
                      j \in {y \in DOMAIN right :
                               \A i \in DOMAIN left : ~SameKey(left[i], right[y], on)}}
        ELSE both

\* pd.merge(left, right, on=on, how=how, indicator=True) over the row
\* identities: one record per pair of rows with equal keys, one per unpaired
\* left row and (outer only) one per unpaired right row; 0 stands for NaN
Merge(left, right, on, how) ==
    LET both == {[oid_src |-> i, oid_tgt |-> j, merge |-> "both"] :
                    <<i, j>> \in {p \in (DOMAIN left) \X (DOMAIN right) :
                                     SameKey(left[p[1]], right[p[2]], on)}}
        left_only == {[oid_src |-> i, oid_tgt |-> 0, merge |-> "left_only"] :
                        i \in {x \in DOMAIN left :
                                 \A j \in DOMAIN right : ~SameKey(left[x], right[j], on)}}
        right_only == {[oid_src |-> 0, oid_tgt |-> j, merge |-> "right_only"] :
                        j \in {y \in DOMAIN right :
                                 \A i \in DOMAIN left : ~SameKey(left[i], right[y], on)}}
    IN  IF how = "outer" THEN both \cup left_only \cup right_only ELSE both

\* lines 355-360
PrimaryStats(merged) ==
    LET c_both == Cardinality({m \in merged : m.merge = "both"})
        c_src == Cardinality({m \in merged : m.merge = "left_only"})
        c_tgt == Cardinality({m \in merged : m.merge = "right_only"})
        total_union == c_both + c_src + c_tgt
    IN  [c_both |-> c_both, c_src |-> c_src, c_tgt |-> c_tgt,
         match_pct |-> Pct(c_both, total_union)]

\* lines 352-360 for any key list: the primary match on the keys sel
PrimaryMatch(d1, d2, sel, src_to_tgt_map, o) ==
    PrimaryStats(Merge(SourceKeys(d1, sel, o),
                       TargetKeys(d2, sel, src_to_tgt_map, o), Range(sel), "outer"))

\* lines 373-377: the percentage when col_to_remove is left out of the keys
DropOnePct(df1_n, df2_n, sel, col_to_remove, total_src_rows, total_tgt_rows) ==
    LET temp_keys == Range(sel) \ {col_to_remove}
        temp_merged == Merge(df1_n, df2_n, temp_keys, "inner")
        temp_match_count == Cardinality({m.oid_src : m \in temp_merged})
        temp_union == total_src_rows + total_tgt_rows - temp_match_count
    IN  Pct(temp_match_count, temp_union)

\* DropOneLoop in which a later candidate with an equal percentage replaces the best
RECURSIVE DropOneLoopLastWins(_, _, _, _, _, _, _)
DropOneLoopLastWins(df1_n, df2_n, sel, i, match_pct, best, totals) ==
    IF i > Len(sel) THEN best
    ELSE LET temp_pct == DropOnePct(df1_n, df2_n, sel, sel[i], totals[1], totals[2])
             next == IF PctGreater(temp_pct, match_pct)
                        /\ ~PctGreater(best.best_alt_pct, temp_pct)
                     THEN [best_alt_pct |-> temp_pct, best_alt_col |-> sel[i]]
                     ELSE best
         IN  DropOneLoopLastWins(df1_n, df2_n, sel, i + 1, match_pct, next, totals)

\* lines 369-382: the loop over the selected keys, from position i on
RECURSIVE DropOneLoop(_, _, _, _, _, _, _)
DropOneLoop(df1_n, df2_n, sel, i, match_pct, best, totals) ==
    IF i > Len(sel) THEN best
    ELSE LET temp_pct == DropOnePct(df1_n, df2_n, sel, sel[i], totals[1], totals[2])
             next == IF PctGreater(temp_pct, match_pct)
                        /\ PctGreater(temp_pct, best.best_alt_pct)
                     THEN [best_alt_pct |-> temp_pct, best_alt_col |-> sel[i]]
                     ELSE best
         IN  DropOneLoop(df1_n, df2_n, sel, i + 1, match_pct, next, totals)

\* lines 368-389: the drop-one analysis; best_alt_col = None when nothing is recommended
DropOne(df1_n, df2_n, sel, match_pct, totals) ==
    IF ~PctIs100(match_pct) /\ Len(sel) > 1
    THEN DropOneLoop(df1_n, df2_n, sel, 1, match_pct,
                     [best_alt_pct |-> Pct(0, 0), best_alt_col |-> None], totals)
    ELSE [best_alt_pct |-> Pct(0, 0), best_alt_col |-> None]

\* lines 368, 372-377: temp_pct of every candidate, in the order of the
\* selected keys; empty when the analysis is not run
DropOnePcts(df1_n, df2_n, sel, match_pct, totals) ==
    IF ~PctIs100(match_pct) /\ Len(sel) > 1
    THEN [i \in DOMAIN sel |->
            DropOnePct(df1_n, df2_n, sel, sel[i], totals[1], totals[2])]
    ELSE <<>>

\* the original table with its cells replaced by their normalized text
NormalizedInPlace(df, o) ==
    [df EXCEPT !.rows = [i \in DOMAIN df.rows |->
        [c \in DOMAIN df.rows[i] |-> StrCell(KeyNormalize(df.rows[i][c], o))]]]

\* lines 341-347: the key columns are normalized in a copy (.copy()), so
\* the table the run was given is what it still holds afterwards
AfterNormalize(df, o) == df

\* lines 478-480: df.loc[ids].reindex(columns=cols): for each joined record
\* of the given kind the row of df at the record's identity, cut to cols
ExportRows(df, merged, kind, cols) ==
    [m \in {r \in merged : r.merge = kind} |->
        [c \in Range(cols) |->
            df.rows[IF kind = "right_only" THEN m.oid_tgt ELSE m.oid_src][c]]]

\* series.unique(): the distinct values in order of first appearance
RECURSIVE Unique(_)
Unique(s) ==
    IF s = <<>> THEN <<>>
    ELSE LET front == Unique(SubSeq(s, 1, Len(s) - 1))
         IN  IF s[Len(s)] \in Range(front) THEN front ELSE Append(front, s[Len(s)])

\* lines 407-408: series.unique()[:3]
Sample(keys, col) ==
    LET u == Unique([i \in DOMAIN keys |-> keys[i][col]])
    IN  SubSeq(u, 1, IF Len(u) < SampleCount THEN Len(u) ELSE SampleCount)

\* lines 406-417: one sample row per selected key column
Samples(df1_n, df2_n, sel) ==
    [i \in DOMAIN sel |->
        [col |-> sel[i], source |-> Sample(df1_n, sel[i]), target |-> Sample(df2_n, sel[i])]]

\* lines 422-433: for each value column the matched records whose two
\* normalized values differ; the target's value is read under the source's name
MismatchMask(d1, d2, in_both_idxs, value_cols, o) ==
    [col \in value_cols |->
        {m \in in_both_idxs :
            ValueNormalize(d1.rows[m.oid_src][col], o)
                /= ValueNormalize(d2.rows[m.oid_tgt][col], o)}]

\* lines 434-438: the columns with a count above 0, in any order that is
\* descending by count
MismatchReports(mask) ==
    LET cols == {c \in DOMAIN mask : Cardinality(mask[c]) > 0}
    IN  {[i \in DOMAIN q |-> [Column |-> q[i], Count |-> Cardinality(mask[q[i]])]] :
            q \in {p \in InjectiveSeqs(cols) :
                    /\ Len(p) = Cardinality(cols)
                    /\ \A i, j \in DOMAIN p :
                          i < j => Cardinality(mask[p[i]]) >= Cardinality(mask[p[j]])}}

\* lines 420-444 and 391-417: the diagnosis branch taken for match_pct, the
\* samples of the zero branch, the mismatch mask of the partial branch, and
\* whether reading the value columns from the target raises KeyError
Diagnose(d1, d2, sel, common_cols_list, stats, merged, reco_msg, df1_n, df2_n, o) ==
    LET in_both_idxs == {m \in merged : m.merge = "both"}
        value_cols == common_cols_list \ Range(sel)
        branch == IF PctIs100(stats.match_pct) THEN "identical"
                  ELSE IF PctIs0(stats.match_pct) THEN "zero" ELSE "partial"
        counted == branch = "partial" /\ value_cols /= {} /\ in_both_idxs /= {}
        keyerror == counted /\ \E c \in value_cols : c \notin Range(d2.cols)
    IN  [branch |-> branch,
         counted |-> counted /\ ~keyerror,
         keyerror |-> keyerror,
         samples |-> IF branch = "zero" /\ ~reco_msg
                     THEN Samples(df1_n, df2_n, sel) ELSE <<>>,
         mask |-> IF counted /\ ~keyerror
                  THEN MismatchMask(d1, d2, in_both_idxs, value_cols, o)
                  ELSE <<>>]

\* the text of the "Details" row of the diagnosis, if there is one
Details(diag, reco_msg, report) ==
    CASE diag.branch = "identical" -> "No value mismatches found."
      [] diag.branch = "zero" /\ ~reco_msg -> "No rows matched."
      [] diag.counted /\ report = <<>> -> "No value mismatches found in matched rows."
      [] OTHER -> ""

\* line 312: not common_cols_list
NoCommonColumns(common_cols_list) == common_cols_list = {}

\* NoKeysSelected that lets an empty selection through
NoKeysSelectedNever(sel) == FALSE

\* line 334: not selected_src
NoKeysSelected(sel) == sel = <<>>

(***************************************************************************)
(* Inputs                                                                  *)
(***************************************************************************)

MaxRows == 2

id == <<"i", "d">>
ID == <<"I", "D">>
rg == <<"r", "g">>
nm == <<"n", "m">>
Nm == <<"N", "m">>

\* the column lists of the two files
Schemas ==
    { [src |-> <<id, rg, nm>>, tgt |-> <<id, rg, nm>>],
      [src |-> <<ID, rg, nm>>, tgt |-> <<id, rg, Nm>>],
      [src |-> <<ID, id, Nm>>, tgt |-> <<id, Nm, nm>>],
      [src |-> <<ID, rg>>, tgt |-> <<id, nm>>] }

\* the rows of the files, as the cells of the first, second and third column
RowCells ==
    { <<StrCell(<<"x">>), StrCell(<<"m">>), StrCell(<<"a">>)>>,
      <<StrCell(<<"X", " ">>), StrCell(<<"m">>), StrCell(<<"A">>)>>,
      <<StrCell(<<"x">>), StrCell(<<"e">>), NullCell>> }

MkRow(cols, cells) == [c \in Range(cols) |-> cells[CHOOSE i \in DOMAIN cols : cols[i] = c]]

Tables(cols) ==
    {[cols |-> cols, rows |-> [i \in DOMAIN r |-> MkRow(cols, r[i])]] :
        r \in UNION {[1..n -> RowCells] : n \in 0..MaxRows}}

Options ==
    [opt_case_cols : BOOLEAN, opt_case_data : BOOLEAN, opt_trim : BOOLEAN]

\* the cells the normalizer is applied to on its own
NormCells ==
    { NullCell, NumCell(5), NumCell(7) } \cup
    { StrCell(s) : s \in
        { <<>>, <<" ">>, <<"x">>, <<"X">>, <<" ", "x">>, <<"x", " ">>,
          <<"x", " ", " ", "y">>, <<"x", "\t", "Y">>,
          <<"x", ".", "0">>, <<"X", ".", "0", ".", "0">>, <<"x", ".", "0", " ">>,
          <<"n", "a", "n">>, <<"N", "a", "N">>, <<" ", "N", "A", "N", " ">>,
          <<"N", "o", "n", "e">>, <<"n", "o", "n", "e", " ">>,
          <<"<", "N", "A", ">">>, <<"N", "a", "T">>, <<"\t", "n", "a", "t">>,
          <<"5">>, <<"5", ".", "0">>, <<"7">>,
          <<"1", "9", "7", "0", "-", "0", "1", "-", "0", "1">>,
          <<"1", "9", "7", "0", "/", "0", "1", "/", "0", "1">> } }

(***************************************************************************)
(* State                                                                   *)
(***************************************************************************)

NoTable == [cols |-> <<>>, rows |-> <<>>]

NoMap == [common_cols_list |-> {}, src_to_tgt_map |-> <<>>]

NoResult ==
    [status |-> "none", error |-> "", steps |-> {},
     df1_n |-> <<>>, df2_n |-> <<>>, merged |-> {},
     c_both |-> 0, c_src |-> 0, c_tgt |-> 0, match_pct |-> Pct(0, 0),
     best_alt_col |-> None, best_alt_pct |-> Pct(0, 0), reco_msg |-> FALSE,
     details |-> "", samples |-> <<>>, mask |-> <<>>, report |-> <<>>,
     temp_pcts |-> <<>>, only_src |-> <<>>, only_tgt |-> <<>>, in_both |-> <<>>]

NormIdle == [stage |-> 0, a |-> NullCell, b |-> NullCell,
             is_case_insensitive_data |-> FALSE, should_trim_whitespace |-> FALSE]

\* the two files are loaded and the sidebar options are set (lines 283-292)
Init ==
    /\ \E sch \in Schemas : df1 \in Tables(sch.src) /\ df2 \in Tables(sch.tgt)
    /\ opts \in Options
    /\ colmap = NoMap
    /\ selected_src = <<>>
    /\ pc = "loaded"
    /\ res = NoResult
    /\ ncell = NormIdle /\ n1 = <<>> /\ n2 = <<>>

\* lines 294-331 with common columns: the key selector is shown with every
\* common column selected, sorted
Render ==
    /\ pc = "loaded"
    /\ LET m == MapColumns(df1.cols, df2.cols, opts.opt_case_cols)
       IN  /\ ~NoCommonColumns(m.common_cols_list)
           /\ colmap' = m
           /\ selected_src' = Sorted(m.common_cols_list)
    /\ pc' = "select"
    /\ UNCHANGED <<df1, df2, opts, res, ncell, n1, n2>>

\* lines 294-313 without common columns: the error is shown and nothing else
RenderNoCommon ==
    /\ pc = "loaded"
    /\ LET m == MapColumns(df1.cols, df2.cols, opts.opt_case_cols)
       IN  /\ NoCommonColumns(m.common_cols_list)
           /\ colmap' = m
    /\ pc' = "stopped"
    /\ res' = [NoResult EXCEPT !.status = "error", !.error = "No common columns found."]
    /\ UNCHANGED <<df1, df2, opts, selected_src, ncell, n1, n2>>

\* lines 318-323: the user changes the key selection
SelectKeys ==
    /\ pc = "select"
    /\ \E sel \in InjectiveSeqs(colmap.common_cols_list) :
          /\ sel /= selected_src
          /\ selected_src' = sel
    /\ pc' = "selected"
    /\ UNCHANGED <<df1, df2, opts, colmap, res, ncell, n1, n2>>

\* lines 333-335: the button is clicked with no key selected
RunNoKeys ==
    /\ pc \in {"select", "selected"}
    /\ NoKeysSelected(selected_src)
    /\ pc' = "stopped"
    /\ res' = [NoResult EXCEPT !.status = "error", !.error = "Select at least one column."]
    /\ UNCHANGED <<df1, df2, opts, colmap, selected_src, ncell, n1, n2>>

\* lines 333-480: the button is clicked with keys selected
RunComparison ==
    /\ pc \in {"select", "selected"}
    /\ ~NoKeysSelected(selected_src)
    /\ df1' = AfterNormalize(df1, opts)
    /\ df2' = AfterNormalize(df2, opts)
    /\ \E df1_n \in {SourceKeys(df1, selected_src, opts)},
          df2_n \in {TargetKeys(df2, selected_src, colmap.src_to_tgt_map, opts)} :
       \E merged \in {Merge(df1_n, df2_n, Range(selected_src), "outer")} :
       \E stats \in {PrimaryStats(merged)} :
       \E best \in {DropOne(df1_n, df2_n, selected_src, stats.match_pct,
                            <<Len(df1.rows), Len(df2.rows)>>)} :
       \E diag \in {Diagnose(df1', df2', selected_src, colmap.common_cols_list, stats,
                             merged, best.best_alt_col /= None, df1_n, df2_n, opts)} :
          LET dropped == ~PctIs100(stats.match_pct) /\ Len(selected_src) > 1
              reco_msg == best.best_alt_col /= None
              steps == {"normalize", "merge", "diagnosis"}
                           \cup (IF dropped THEN {"dropone"} ELSE {})
          IN  IF diag.keyerror
              THEN res' = [NoResult EXCEPT !.status = "crashed", !.error = "KeyError",
                                           !.steps = steps]
              ELSE \E report \in (IF diag.counted THEN MismatchReports(diag.mask)
                                                  ELSE {<<>>}) :
                     res' = [status |-> "done", error |-> "",
                             steps |-> steps \cup {"report"},
                             df1_n |-> df1_n, df2_n |-> df2_n, merged |-> merged,
                             c_both |-> stats.c_both, c_src |-> stats.c_src,
                             c_tgt |-> stats.c_tgt, match_pct |-> stats.match_pct,
                             best_alt_col |-> best.best_alt_col,
                             best_alt_pct |-> best.best_alt_pct,
                             reco_msg |-> reco_msg,
                             details |-> Details(diag, reco_msg, report),
                             samples |-> diag.samples, mask |-> diag.mask,
                             report |-> report,
                             temp_pcts |-> DropOnePcts(df1_n, df2_n, selected_src,
                                               stats.match_pct,
                                               <<Len(df1.rows), Len(df2.rows)>>),
                             only_src |-> ExportRows(df1', merged, "left_only",
                                                     selected_src),
                             only_tgt |-> ExportRows(df2', merged, "right_only",
                                              [i \in DOMAIN selected_src |->
                                                  colmap.src_to_tgt_map[selected_src[i]]]),
                             in_both |-> ExportRows(df1', merged, "both", selected_src)]
    /\ pc' = "stopped"
    /\ UNCHANGED <<opts, colmap, selected_src, ncell, n1, n2>>

Next == Render \/ RenderNoCommon \/ SelectKeys \/ RunNoKeys \/ RunComparison

Spec == Init /\ [][Next]_vars

(***************************************************************************)
(* The normalizer on its own: two cells are normalized, and the results    *)
(* are normalized again                                                    *)
(***************************************************************************)

InitNorm ==
    /\ ncell \in [stage : {0}, a : NormCells, b : NormCells,
                  is_case_insensitive_data : BOOLEAN, should_trim_whitespace : BOOLEAN]
    /\ n1 = <<>> /\ n2 = <<>>
    /\ df1 = NoTable /\ df2 = NoTable
    /\ opts = [opt_case_cols |-> FALSE, opt_case_data |-> FALSE, opt_trim |-> FALSE]
    /\ colmap = NoMap /\ selected_src = <<>> /\ pc = "normalizer" /\ res = NoResult

Normalize ==
    /\ ncell.stage = 0
    /\ n1' = <<normalize_for_comparison(ncell.a, ncell.is_case_insensitive_data,
                                        ncell.should_trim_whitespace),
               normalize_for_comparison(ncell.b, ncell.is_case_insensitive_data,
                                        ncell.should_trim_whitespace)>>
    /\ ncell' = [ncell EXCEPT !.stage = 1]
    /\ UNCHANGED <<n2, df1, df2, opts, colmap, selected_src, pc, res>>

NormalizeAgain ==
    /\ ncell.stage = 1
    /\ n2' = <<normalize_for_comparison(StrCell(n1[1]), ncell.is_case_insensitive_data,
                                        ncell.should_trim_whitespace),
               normalize_for_comparison(StrCell(n1[2]), ncell.is_case_insensitive_data,
                                        ncell.should_trim_whitespace)>>
    /\ ncell' = [ncell EXCEPT !.stage = 2]
    /\ UNCHANGED <<n1, df1, df2, opts, colmap, selected_src, pc, res>>

NextNorm == Normalize \/ NormalizeAgain

SpecNorm == InitNorm /\ [][NextNorm]_vars

(***************************************************************************)
(* Properties                                                              *)
(***************************************************************************)

SrcRows == 1..Len(df1.rows)

TgtRows == 1..Len(df2.rows)

BothOf(merged) == {m \in merged : m.merge = "both"}

\* the normalized key tuple of source row i and of target row j on the keys
\* sel, computed from the original cells under the options of the run
SrcKeyTuple(i, sel) ==
    [c \in Range(sel) |->
        normalize_for_comparison(df1.rows[i][c], opts.opt_case_data, opts.opt_trim)]

TgtKeyTuple(j, sel) ==
    [c \in Range(sel) |->
        normalize_for_comparison(df2.rows[j][colmap.src_to_tgt_map[c]],
                                 opts.opt_case_data, opts.opt_trim)]

\* C1: after a run, every source row is in exactly one of left_only and
\* both, every target row in exactly one of right_only and both, and
\* |only_source| + (distinct source rows in both) = |A|, likewise for B.
C1_PartitionComplete ==
    res.status = "done" =>
        /\ \A i \in SrcRows :
              LET lo == {m \in res.merged : m.merge = "left_only" /\ m.oid_src = i}
                  bo == {m \in res.merged : m.merge = "both" /\ m.oid_src = i}
              IN  (Cardinality(lo) = 1 /\ bo = {}) \/ (lo = {} /\ bo /= {})
        /\ \A j \in TgtRows :
              LET ro == {m \in res.merged : m.merge = "right_only" /\ m.oid_tgt = j}
                  bo == {m \in res.merged : m.merge = "both" /\ m.oid_tgt = j}
              IN  (Cardinality(ro) = 1 /\ bo = {}) \/ (ro = {} /\ bo /= {})
        /\ \A m \in res.merged :
              /\ m.merge \in {"left_only", "both"} => m.oid_src \in SrcRows
              /\ m.merge \in {"right_only", "both"} => m.oid_tgt \in TgtRows
        /\ res.c_src + Cardinality({m.oid_src : m \in BothOf(res.merged)}) = Len(df1.rows)
        /\ res.c_tgt + Cardinality({m.oid_tgt : m \in BothOf(res.merged)}) = Len(df2.rows)

\* a run with source-only, target-only and matched rows
C1_Witness ==
    /\ res.status = "done"
    /\ res.c_src > 0 /\ res.c_tgt > 0 /\ res.c_both > 0

\* C2: a source row and a target row are paired in both iff their
\* normalized cells are equal in every key column (the target's under the
\* mapped name), and a matched pair is counted as a mismatch in a value
\* column iff that same normalization, with the same options, makes the two
\* compared cells differ.
C2_MatchingConsistency ==
    res.status = "done" =>
        /\ \A srcKey \in {[i \in SrcRows |-> SrcKeyTuple(i, selected_src)]},
              tgtKey \in {[j \in TgtRows |-> TgtKeyTuple(j, selected_src)]} :
              \A i \in SrcRows, j \in TgtRows :
                  ([oid_src |-> i, oid_tgt |-> j, merge |-> "both"] \in res.merged)
                      <=> (srcKey[i] = tgtKey[j])
        /\ \A col \in DOMAIN res.mask :
              \A m \in BothOf(res.merged) :
                  (m \in res.mask[col])
                      <=> (normalize_for_comparison(df1.rows[m.oid_src][col],
                                                    opts.opt_case_data, opts.opt_trim)
                             /= normalize_for_comparison(df2.rows[m.oid_tgt][col],
                                                         opts.opt_case_data, opts.opt_trim))

\* a pair matched on key cells that differ as written, whose value cells
\* differ as written too and are not counted as a mismatch
C2_Witness ==
    /\ res.status = "done"
    /\ \E m \in BothOf(res.merged) :
          /\ \E c \in Range(selected_src) :
                df1.rows[m.oid_src][c] /= df2.rows[m.oid_tgt][colmap.src_to_tgt_map[c]]
          /\ \E col \in DOMAIN res.mask :
                /\ m \notin res.mask[col]
                /\ df1.rows[m.oid_src][col] /= df2.rows[m.oid_tgt][col]

RECURSIVE SumOver(_, _)
SumOver(S, f) ==
    IF S = {} THEN 0
    ELSE LET x == CHOOSE x \in S : TRUE IN f[x] + SumOver(S \ {x}, f)

\* C3: a key tuple that occurs m times in the source and n times in the
\* target has exactly m * n pairs in both, and c_both is the sum of these
\* products over the tuples of the source.
C3_CrossProduct ==
    res.status = "done" =>
        \A srcKey \in {[i \in SrcRows |-> SrcKeyTuple(i, selected_src)]},
           tgtKey \in {[j \in TgtRows |-> TgtKeyTuple(j, selected_src)]} :
            LET tuples == Range(srcKey)
                m(k) == Cardinality({i \in SrcRows : srcKey[i] = k})
                n(k) == Cardinality({j \in TgtRows : tgtKey[j] = k})
                pairs(k) == {r \in BothOf(res.merged) : srcKey[r.oid_src] = k}
            IN  /\ \A k \in tuples : Cardinality(pairs(k)) = m(k) * n(k)
                /\ res.c_both = SumOver(tuples, [k \in tuples |-> m(k) * n(k)])

\* the key of two source rows and one target row: 2 pairs
C3_Witness ==
    /\ res.status = "done"
    /\ Len(df1.rows) = 2 /\ Len(df2.rows) = 1
    /\ SrcKeyTuple(1, selected_src) = SrcKeyTuple(2, selected_src)
    /\ res.c_both = 2

\* the mismatch count of value column col: the matched pairs whose
\* normalized source value differs from the normalized value of the mapped
\* target column
MismatchCount(col) ==
    Cardinality({m \in BothOf(res.merged) :
        normalize_for_comparison(df1.rows[m.oid_src][col],
                                 opts.opt_case_data, opts.opt_trim)
            /= normalize_for_comparison(df2.rows[m.oid_tgt][colmap.src_to_tgt_map[col]],
                                        opts.opt_case_data, opts.opt_trim)})

\* C4: in a run with a matched pair, the report lists exactly the common
\* non-key columns with a mismatch count above 0, each with its count, in
\* descending order of count, whatever the match percentage.
C4_MismatchCounts ==
    (res.status = "done" /\ res.c_both > 0) =>
        LET value_cols == colmap.common_cols_list \ Range(selected_src)
        IN  /\ {r.Column : r \in Range(res.report)}
                  = {c \in value_cols : MismatchCount(c) > 0}
            /\ \A i \in DOMAIN res.report :
                  res.report[i].Count = MismatchCount(res.report[i].Column)
            /\ \A i, j \in DOMAIN res.report :
                  i < j => res.report[i].Count >= res.report[j].Count

\* the keys sel without column c
Without(sel, c) == SelectSeq(sel, LAMBDA k : k /= c)

\* C5: when column c is recommended, the primary match on the selected
\* keys without c has a strictly greater match percentage than the primary
\* match on all selected keys.
C5_DropOneImproves ==
    (res.status = "done" /\ res.reco_msg) =>
        PctGreater(PrimaryMatch(df1, df2, Without(selected_src, res.best_alt_col),
                                colmap.src_to_tgt_map, opts).match_pct,
                   res.match_pct)

\* C6: normalizing the output of the normalizer, with the same options,
\* returns that output.
C6_Idempotent == ncell.stage = 2 => n2 = n1

\* the texts that stand for a missing value, and a real null
IsMissing(cell) ==
    \/ cell.k = "null"
    \/ /\ cell.k = "str"
       /\ LowerS(Strip(cell.s)) \in
            { <<"n", "a", "n">>, <<"<", "n", "a", ">">>, <<"n", "o", "n", "e">>,
              <<"n", "a", "t">>, <<>> }

\* C7: under every option setting a missing-value token, in any letter case
\* and with any surrounding whitespace, and a real null normalize to the
\* empty string, so two such cells normalize to equal values.
C7_NullCollapse ==
    ncell.stage >= 1 =>
        /\ IsMissing(ncell.a) => n1[1] = <<>>
        /\ IsMissing(ncell.b) => n1[2] = <<>>
        /\ (IsMissing(ncell.a) /\ IsMissing(ncell.b)) => n1[1] = n1[2]

\* an upper-case token with spaces around it and a real null, both normalized
C7_Witness ==
    /\ ncell.stage = 1
    /\ ncell.a = StrCell(<<" ", "N", "A", "N", " ">>)
    /\ ncell.b = NullCell
    /\ ~ncell.should_trim_whitespace
    /\ n1 = << <<>>, <<>> >>

\* column c is the last column of cols with its lowercased name
IsLastOfItsName(cols, c) ==
    \A i, j \in DOMAIN cols :
        (cols[i] = c /\ LowerS(cols[j]) = LowerS(c)) => j <= i

\* what both forms of the column claim share: the common list holds source
\* names, the map is defined on it and leads to target names, and without
\* the flag the common columns are the names in both tables, mapped to themselves
ColumnMapShape ==
    /\ colmap.common_cols_list \subseteq Range(df1.cols)
    /\ DOMAIN colmap.src_to_tgt_map = colmap.common_cols_list
    /\ \A c \in colmap.common_cols_list : colmap.src_to_tgt_map[c] \in Range(df2.cols)
    /\ ~opts.opt_case_cols =>
          /\ colmap.common_cols_list = Range(df1.cols) \cap Range(df2.cols)
          /\ \A c \in colmap.common_cols_list : colmap.src_to_tgt_map[c] = c

Reconciled(s, t) == s \in colmap.common_cols_list /\ colmap.src_to_tgt_map[s] = t

\* C8 as written: with the flag set, a source column and a target column
\* are reconciled exactly when their names are equal after lowercasing.
C8_AsWritten ==
    pc \in {"select", "selected", "stopped"} =>
        /\ ColumnMapShape
        /\ opts.opt_case_cols =>
              \A s \in Range(df1.cols), t \in Range(df2.cols) :
                  Reconciled(s, t) <=> LowerS(s) = LowerS(t)

\* C8 as amended: with the flag set, a source column and a target column
\* are reconciled exactly when their names are equal after lowercasing and
\* each is the last column of its table with that lowercased name.
C8_ColumnReconciliation ==
    pc \in {"select", "selected", "stopped"} =>
        /\ ColumnMapShape
        /\ opts.opt_case_cols =>
              \A s \in Range(df1.cols), t \in Range(df2.cols) :
                  Reconciled(s, t)
                      <=> /\ LowerS(s) = LowerS(t)
                          /\ IsLastOfItsName(df1.cols, s)
                          /\ IsLastOfItsName(df2.cols, t)

\* "ID" and "id" reconciled, in tables where another column has the same
\* lowercased name as a reconciled one
C8_Witness ==
    /\ pc = "select"
    /\ opts.opt_case_cols
    /\ \E s \in colmap.common_cols_list :
          /\ colmap.src_to_tgt_map[s] /= s
          /\ LowerS(colmap.src_to_tgt_map[s]) = LowerS(s)
    /\ \E s \in Range(df1.cols) : ~IsLastOfItsName(df1.cols, s)

\* C9: a run in which no pair matched shows, for every selected key
\* column, the first distinct normalized values of the source and of the target.
C9_ZeroMatchSamples ==
    (res.status = "done" /\ PctIs0(res.match_pct)) =>
        /\ Len(res.samples) = Len(selected_src)
        /\ \A i \in DOMAIN res.samples :
              /\ res.samples[i].col = selected_src[i]
              /\ res.samples[i].source = Sample(res.df1_n, selected_src[i])
              /\ res.samples[i].target = Sample(res.df2_n, selected_src[i])

\* no source column and target column have the same name (the same
\* lowercased name when the columns are matched without case)
TablesShareNoColumn ==
    \A s \in Range(df1.cols), t \in Range(df2.cols) :
        IF opts.opt_case_cols THEN LowerS(s) /= LowerS(t) ELSE s /= t

\* C10: without a common column, or when run with no key selected, an
\* error is shown and no step of the engine is executed; the engine runs
\* only with a non-empty list of keys that are common columns.
C10_ValidationFirst ==
    /\ (pc /= "loaded" /\ TablesShareNoColumn) =>
          /\ pc = "stopped"
          /\ res.status = "error" /\ res.error /= "" /\ res.steps = {}
    /\ (pc = "stopped" /\ selected_src = <<>>) =>
          /\ res.status = "error" /\ res.error /= "" /\ res.steps = {}
          /\ res.merged = {} /\ res.df1_n = <<>> /\ res.df2_n = <<>>
    /\ res.steps /= {} =>
          /\ selected_src /= <<>>
          /\ \A c \in Range(selected_src) :
                /\ c \in Range(df1.cols)
                /\ c \in colmap.common_cols_list
                /\ colmap.src_to_tgt_map[c] \in Range(df2.cols)

\* a run refused for want of keys although the tables share columns
C10_Witness ==
    /\ pc = "stopped"
    /\ res.status = "error"
    /\ selected_src = <<>>
    /\ colmap.common_cols_list /= {}

\* two percentages are the same number
PctEq(p, q) == p.n * q.d = q.n * p.d

\* the positions of the candidates whose percentage, as the analysis
\* computed it, is above the primary percentage
Improving == {i \in DOMAIN res.temp_pcts : PctGreater(res.temp_pcts[i], res.match_pct)}

C12_DropOneAgreesWithPrimary ==
    (res.status = "done" /\ res.temp_pcts /= <<>>) =>
        \A i \in DOMAIN res.temp_pcts :
            PctEq(res.temp_pcts[i],
                  PrimaryMatch(df1, df2, Without(selected_src, selected_src[i]),
                               colmap.src_to_tgt_map, opts).match_pct)

\* the target names of the selected keys (selected_tgt, line 340)
SelectedTgt == [i \in DOMAIN selected_src |-> colmap.src_to_tgt_map[selected_src[i]]]

\* the rows of exported are, one for each joined record of the kind, the
\* cells that df holds at the identity the record retained
ExportsOriginal(exported, df, kind, cols) ==
    /\ DOMAIN exported = {m \in res.merged : m.merge = kind}
    /\ \A m \in DOMAIN exported :
          /\ DOMAIN exported[m] = Range(cols)
          /\ \A c \in Range(cols) :
                exported[m][c]
                    = df.rows[IF kind = "right_only" THEN m.oid_tgt ELSE m.oid_src][c]

C14_PercentageBounds ==
    res.status = "done" =>
        /\ res.match_pct.d > 0
        /\ res.match_pct.n >= 0
        /\ res.match_pct.n <= HUNDRED * res.match_pct.d
        /\ res.merged = {} => PctIs0(res.match_pct)
        /\ res.reco_msg =>
              /\ res.best_alt_pct.d > 0
              /\ res.best_alt_pct.n >= 0
              /\ res.best_alt_pct.n <= HUNDRED * res.best_alt_pct.d

====
